---- MODULE Spec2Model ----
(***************************************************************************)
(* TestDataManager (utils/testDataManager.js): partitioning of a loaded    *)
(* dataset between Playwright workers by worker index, with usage          *)
(* tracking.  Dataset indices are 0-based as in the JavaScript source;     *)
(* the sequence allData holds index i at position i + 1.                   *)
(***************************************************************************)
EXTENDS Integers, Sequences, FiniteSets, TLC

\* ---------------------------------------------------------------- bounds
MaxRecords == 4
MaxWorker == 2
MaxOffset == 3
MaxCount == 3
\* largest data file and largest worker index of the specification that
\* remembers an earlier call
TrackRecords == 4
TrackWorker == 1
\* largest data file of the specification that counts the returned indices
HandedRecords == 3
\* largest data file of the specification in which callers write to records
AliasRecords == 2
\* largest data file of the specification that remembers an unmarked read
ReadRecords == 2
\* the specification that counts the marked indices: its small data files,
\* and the size of the usage set beyond which it makes no marking call
CountRecords == 2
MaxMarked == 3
\* largest maxRetries argument passed to retryAction
MaxRetries == 4
\* largest number of onTestEnd events between two onBegin events
MaxTests == 3

\* ------------------------------------------------------ program constants
DefaultDataPerWorker == 10
\* retryAction(action, maxRetries = 3, actionName = 'Action')
DefaultMaxRetries == 3

\* ------------------------------------------------------------ input sets
\* options.dataPerWorker as passed to the constructor; 0 stands for "absent"
DataPerWorkerOptions == {0, 2, 3}
Workers == 0..MaxWorker
\* offsets 7 and 12 are the ones of the 5-record / dataPerWorker = 10 example
Offsets == (0..MaxOffset) \cup {7, 12}
Counts == 0..MaxCount
\* the number of rows the reader delivers: up to MaxRecords, and the 5 rows
\* of the 5-record / dataPerWorker = 10 example
FileSizes == (0..MaxRecords) \cup {5}
\* from one before the first record to one after the last
Indices == (-1)..(MaxRecords + 1)
\* filter criteria: none, one field, two fields, and a field no row has
Filters == { [k \in {} |-> "any"],
             [status |-> "active"],
             [status |-> "inactive"],
             [status |-> "active", email |-> "user0"],
             [status |-> "active", email |-> "user1"],
             [plan |-> "gold"],
             [status |-> "active", plan |-> "gold"] }
AccessorNames == {"getDataCount", "getAvailableCount", "getStats"}
\* the maxRetries argument of retryAction: left out, or an integer
RetryArguments == {[given |-> FALSE]}
                  \cup {[given |-> TRUE, value |-> n] : n \in (-1)..MaxRetries}
\* result.status as Playwright reports it
Statuses == {"passed", "failed", "skipped", "timedOut", "interrupted"}
\* error.message of a rejected action
ErrorMessages == {"timeout", "not found"}

VARIABLES dataPerWorker, allData, usedIndices,
          call, ret, alias, threw, usedBefore, handed,
          lastOffset, received, watch,
          marked, loaded, ownUsed, retry, reporter

mgrVars == <<dataPerWorker, allData, usedIndices>>
obsVars == <<call, ret, alias, threw, usedBefore>>
\* further history of the manager: the indices marked since the last reset,
\* the outcome of the loads so far, and the usage sets of per-worker instances
countVars == <<marked, loaded, ownUsed>>
\* the state of a retryAction call and of a SimpleHTMLReporter
utilVars == <<retry, reporter>>
histVars == <<handed, lastOffset, received, watch, countVars, utilVars>>
vars == <<dataPerWorker, allData, usedIndices,
          call, ret, alias, threw, usedBefore, handed,
          lastOffset, received, watch,
          marked, loaded, ownUsed, retry, reporter>>

\* ------------------------------------------------------------- the data
\* the "no data" result of the accessors
NULL == [null |-> TRUE]

\* one row of the data file: a string-keyed record
Row(i) == [email |-> "user" \o ToString(i),
           status |-> IF i % 2 = 0 THEN "active" ELSE "inactive"]

\* what readCSV / readExcel deliver for a file of n rows
FileRows(n) == [k \in 1..n |-> Row(k - 1)]

\* an object without own properties; spreading undefined yields it
EmptyObject == [k \in {} |-> TRUE]

\* allData[i] with the 0-based index of the source, as it is spread into an
\* object literal: an index outside the array reads undefined
At(data, i) == IF i >= 0 /\ i < Len(data) THEN data[i + 1] ELSE EmptyObject

\* { ...obj, key: value, ... }: later keys override the spread ones
Spread(obj, extra) == extra @@ obj

\* ------------------------------------------------------- getUniqueData
\* variant: every worker's range starts at the first record
StartIndexShared(workerIndex) == 0

StartIndex(workerIndex) == workerIndex * dataPerWorker

\* variant: the worker index is not scaled by the slice size
DataIndexUnscaled(workerIndex, offset) == workerIndex + offset

\* variant: the offset is scaled instead of the worker index
DataIndexOffsetScaled(workerIndex, offset) ==
    workerIndex + offset * dataPerWorker

DataIndex(workerIndex, offset) == StartIndex(workerIndex) + offset

\* variant: the scan starts one index after the start of the range
RECURSIVE AltIndexSkipFirst(_, _, _, _)
AltIndexSkipFirst(workerIndex, i, data, used) ==
    IF i >= dataPerWorker - 1 THEN -1
    ELSE LET altIndex == StartIndex(workerIndex) + i + 1
         IN  IF altIndex < Len(data) /\ altIndex \notin used
             THEN altIndex
             ELSE AltIndexSkipFirst(workerIndex, i + 1, data, used)

\* variant: the loop runs while i <= dataPerWorker
RECURSIVE AltIndexOnePast(_, _, _, _)
AltIndexOnePast(workerIndex, i, data, used) ==
    IF i > dataPerWorker THEN -1
    ELSE LET altIndex == StartIndex(workerIndex) + i
         IN  IF altIndex < Len(data) /\ altIndex \notin used
             THEN altIndex
             ELSE AltIndexOnePast(workerIndex, i + 1, data, used)

\* variant: the scan does not consult the usage set
RECURSIVE AltIndexIgnoreUsed(_, _, _, _)
AltIndexIgnoreUsed(workerIndex, i, data, used) ==
    IF i >= dataPerWorker THEN -1
    ELSE LET altIndex == StartIndex(workerIndex) + i
         IN  IF altIndex < Len(data)
             THEN altIndex
             ELSE AltIndexIgnoreUsed(workerIndex, i + 1, data, used)

\* variant: the scan gives up at the first index it cannot take
RECURSIVE AltIndexStopsEarly(_, _, _, _)
AltIndexStopsEarly(workerIndex, i, data, used) ==
    IF i >= dataPerWorker THEN -1
    ELSE LET altIndex == StartIndex(workerIndex) + i
         IN  IF altIndex < Len(data) /\ altIndex \notin used
             THEN altIndex
             ELSE -1

\* variant: the scan starts at index 0 instead of the worker's start index
RECURSIVE AltIndexFromZero(_, _, _, _)
AltIndexFromZero(workerIndex, i, data, used) ==
    IF i >= dataPerWorker THEN -1
    ELSE LET altIndex == i
         IN  IF altIndex < Len(data) /\ altIndex \notin used
             THEN altIndex
             ELSE AltIndexFromZero(workerIndex, i + 1, data, used)

\* the loop  for (let i = 0; i < dataPerWorker; i++)  of the fallback:
\* the first altIndex that is in bounds and unused, or -1 when the loop ends
RECURSIVE AltIndex(_, _, _, _)
AltIndex(workerIndex, i, data, used) ==
    IF i >= dataPerWorker THEN -1
    ELSE LET altIndex == StartIndex(workerIndex) + i
         IN  IF altIndex < Len(data) /\ altIndex \notin used
             THEN altIndex
             ELSE AltIndex(workerIndex, i + 1, data, used)

\* the record returned by the fallback branch
AltRecord(data, altIndex, workerIndex) ==
    Spread(At(data, altIndex), "_dataIndex" :> altIndex)

\* the record returned by the direct branch
DirectRecord(data, dataIndex, workerIndex) ==
    Spread(At(data, dataIndex),
           ("_dataIndex" :> dataIndex) @@ ("_workerIndex" :> workerIndex))

\* variant: the usage set is never consulted
AlreadyUsedNever(dataIndex, used) == FALSE

\* the guard  if (this.usedIndices.has(dataIndex))
AlreadyUsed(dataIndex, used) == dataIndex \in used

\* variant: strict comparison
OutOfDataStrict(dataIndex, data) == dataIndex > Len(data)

\* variant: operands of the comparison swapped
OutOfDataSwapped(dataIndex, data) == Len(data) >= dataIndex

\* the guard  if (dataIndex >= this.allData.length)
OutOfData(dataIndex, data) == dataIndex >= Len(data)

\* variant: the direct branch does not mark the index as used
GetUniqueDataResultNoMark(workerIndex, offset, data, used) ==
    LET dataIndex == DataIndex(workerIndex, offset)
    IN  IF OutOfData(dataIndex, data)
        THEN [ret |-> NULL, used |-> used]
        ELSE IF AlreadyUsed(dataIndex, used)
        THEN LET altIndex == AltIndex(workerIndex, 0, data, used)
             IN  IF altIndex >= 0
                 THEN [ret |-> AltRecord(data, altIndex, workerIndex),
                       used |-> used \cup {altIndex}]
                 ELSE [ret |-> NULL, used |-> used]
        ELSE [ret |-> DirectRecord(data, dataIndex, workerIndex),
              used |-> used]

\* getUniqueData as a function of the instance state: result and new usage set
GetUniqueDataResult(workerIndex, offset, data, used) ==
    LET dataIndex == DataIndex(workerIndex, offset)
    IN  IF OutOfData(dataIndex, data)
        THEN [ret |-> NULL, used |-> used]
        ELSE IF AlreadyUsed(dataIndex, used)
        THEN LET altIndex == AltIndex(workerIndex, 0, data, used)
             IN  IF altIndex >= 0
                 THEN [ret |-> AltRecord(data, altIndex, workerIndex),
                       used |-> used \cup {altIndex}]
                 ELSE [ret |-> NULL, used |-> used]
        ELSE [ret |-> DirectRecord(data, dataIndex, workerIndex),
              used |-> used \cup {dataIndex}]

\* ----------------------------------------------------- getMultipleData
\* variant: the loop runs while i <= count
RECURSIVE MultipleLoopOneMore(_, _, _, _, _, _)
MultipleLoopOneMore(workerIndex, count, i, data, used, results) ==
    IF i > count THEN [ret |-> results, used |-> used]
    ELSE LET r == GetUniqueDataResult(workerIndex, i, data, used)
         IN  IF r.ret # NULL
             THEN MultipleLoopOneMore(workerIndex, count, i + 1, data, r.used,
                                      Append(results, r.ret))
             ELSE [ret |-> results, used |-> r.used]

\* the loop  for (let i = 0; i < count; i++)  with its break on null
RECURSIVE MultipleLoop(_, _, _, _, _, _)
MultipleLoop(workerIndex, count, i, data, used, results) ==
    IF i >= count THEN [ret |-> results, used |-> used]
    ELSE LET r == GetUniqueDataResult(workerIndex, i, data, used)
         IN  IF r.ret # NULL
             THEN MultipleLoop(workerIndex, count, i + 1, data, r.used,
                               Append(results, r.ret))
             ELSE [ret |-> results, used |-> r.used]

GetMultipleDataResult(workerIndex, count, data, used) ==
    MultipleLoop(workerIndex, count, 0, data, used, <<>>)

\* ------------------------------------------------------ getDataByIndex
\* variant: the index is marked whatever markAsUsed is
GetDataByIndexResultAlwaysMarks(index, markAsUsed, data, used) ==
    IF index < 0 \/ index >= Len(data)
    THEN [ret |-> NULL, used |-> used]
    ELSE [ret |-> Spread(At(data, index), "_dataIndex" :> index),
          used |-> used \cup {index}]

\* variant: an index that is already used is refused
GetDataByIndexResultRefusesUsed(index, markAsUsed, data, used) ==
    IF index < 0 \/ index >= Len(data) \/ index \in used
    THEN [ret |-> NULL, used |-> used]
    ELSE [ret |-> Spread(At(data, index), "_dataIndex" :> index),
          used |-> IF markAsUsed THEN used \cup {index} ELSE used]

\* variant: the copy also tells whether the index is in the usage set
GetDataByIndexResultFlagsUsage(index, markAsUsed, data, used) ==
    IF index < 0 \/ index >= Len(data)
    THEN [ret |-> NULL, used |-> used]
    ELSE [ret |-> Spread(At(data, index),
                         "_dataIndex" :> index @@ "_used" :> (index \in used)),
          used |-> IF markAsUsed THEN used \cup {index} ELSE used]

\* variant: the upper bound is compared strictly
GetDataByIndexResultStrictBound(index, markAsUsed, data, used) ==
    IF index < 0 \/ index > Len(data)
    THEN [ret |-> NULL, used |-> used]
    ELSE [ret |-> Spread(At(data, index), "_dataIndex" :> index),
          used |-> IF markAsUsed THEN used \cup {index} ELSE used]

GetDataByIndexResult(index, markAsUsed, data, used) ==
    IF index < 0 \/ index >= Len(data)
    THEN [ret |-> NULL, used |-> used]
    ELSE [ret |-> Spread(At(data, index), "_dataIndex" :> index),
          used |-> IF markAsUsed THEN used \cup {index} ELSE used]

\* ----------------------------------------------------- getFilteredData
\* variant: a key the item does not have counts as a match
FieldEqualsOrMissing(item, key, value) ==
    key \notin DOMAIN item \/ item[key] = value

\* item[key] === value: a key the item does not have reads undefined
FieldEquals(item, key, value) == key \in DOMAIN item /\ item[key] = value

\* variant: some instead of every
MatchesFilterSome(item, filter) ==
    \E key \in DOMAIN filter : FieldEquals(item, key, filter[key])

\* Object.entries(filter).every(...)
MatchesFilter(item, filter) ==
    \A key \in DOMAIN filter : FieldEquals(item, key, filter[key])

\* the 0-based positions that Array.prototype.filter keeps, in order
RECURSIVE FilterPositions(_, _, _)
FilterPositions(data, filter, i) ==
    IF i >= Len(data) THEN <<>>
    ELSE IF MatchesFilter(At(data, i), filter)
         THEN <<i>> \o FilterPositions(data, filter, i + 1)
         ELSE FilterPositions(data, filter, i + 1)

\* getFilteredData: the kept elements are the objects of allData themselves
GetFilteredDataResult(filter, data) ==
    LET kept == FilterPositions(data, filter, 0)
    IN  [ret |-> [j \in 1..Len(kept) |-> At(data, kept[j])],
         alias |-> kept]

\* ------------------------------------------------------------ accessors
GetDataCountResult(data) == Len(data)

GetAvailableCountResult(data, used) == Len(data) - Cardinality(used)

\* two decimal digits of a hundredths count
TwoDigits(n) == IF n < 10 THEN "0" \o ToString(n) ELSE ToString(n)

\* ((used / total) * 100).toFixed(2)
UsagePercent(used, total) ==
    IF total = 0 THEN (IF used = 0 THEN "NaN" ELSE "Infinity")
    ELSE LET hundredths == (20000 * used + total) \div (2 * total)
         IN  ToString(hundredths \div 100) \o "." \o TwoDigits(hundredths % 100)

\* variant: only the used indices that are inside the dataset are counted
GetStatsResultInBoundsOnly(data, used) ==
    LET valid == {i \in used : i < Len(data)}
    IN  [total |-> Len(data),
         used |-> Cardinality(valid),
         available |-> Len(data) - Cardinality(valid),
         usagePercent |-> UsagePercent(Cardinality(valid), Len(data))]

GetStatsResult(data, used) ==
    [total |-> Len(data),
     used |-> Cardinality(used),
     available |-> Len(data) - Cardinality(used),
     usagePercent |-> UsagePercent(Cardinality(used), Len(data))]

\* --------------------------------------------------------------- state
\* new TestDataManager(filePath, { dataPerWorker })
ConstructedDataPerWorker(option) ==
    IF option = 0 THEN DefaultDataPerWorker ELSE option

NoWatch == [set |-> FALSE]

\* history: how often each dataset index was returned by getUniqueData or
\* getMultipleData since the last resetUsedData (counted up to 2)
NoneHanded == [i \in 0..MaxRecords |-> 0]

HandOver(h, records) ==
    [i \in DOMAIN h |->
        LET n == h[i] + Cardinality({k \in 1..Len(records) :
                                         records[k]["_dataIndex"] = i})
        IN  IF n > 2 THEN 2 ELSE n]

\* no retryAction call has been made
NoRetry == [pc |-> "idle"]

\* new SimpleHTMLReporter(options): this.results is not assigned yet
NewReporter == [begun |-> FALSE]

HistInit ==
    /\ handed = NoneHanded
    /\ lastOffset = [w \in Workers |-> -1]
    /\ received = [w \in Workers |-> {}]
    /\ watch = NoWatch
    /\ marked = {}
    /\ loaded = "no"
    /\ ownUsed = [w \in Workers |-> {}]
    /\ retry = NoRetry
    /\ reporter = NewReporter

Init ==
    /\ dataPerWorker \in {ConstructedDataPerWorker(o) : o \in DataPerWorkerOptions}
    /\ allData = <<>>
    /\ usedIndices = {}
    /\ call = [op |-> "new"]
    /\ ret = NULL
    /\ alias = <<>>
    /\ threw = FALSE
    /\ usedBefore = {}
    /\ HistInit

\* ------------------------------------------------------------- actions
\* variant: a load starts a fresh usage set
LoadDataOkClearsUsage(n) ==
    /\ allData' = FileRows(n)
    /\ usedIndices' = {}
    /\ call' = [op |-> "loadData", rows |-> n]
    /\ ret' = NULL
    /\ alias' = <<>>
    /\ threw' = FALSE
    /\ usedBefore' = usedIndices
    /\ UNCHANGED dataPerWorker

\* loadData(): the reader delivers n rows and allData is replaced
LoadDataOk(n) ==
    /\ allData' = FileRows(n)
    /\ call' = [op |-> "loadData", rows |-> n]
    /\ ret' = NULL
    /\ alias' = <<>>
    /\ threw' = FALSE
    /\ usedBefore' = usedIndices
    /\ UNCHANGED <<dataPerWorker, usedIndices>>

\* variant: the rows read before the failure are kept
LoadDataFailKeepsPartial ==
    /\ allData' = FileRows(1)
    /\ call' = [op |-> "loadData", rows |-> -1]
    /\ ret' = NULL
    /\ alias' = <<>>
    /\ threw' = TRUE
    /\ usedBefore' = usedIndices
    /\ UNCHANGED <<dataPerWorker, usedIndices>>

\* loadData(): the reader throws; the error is logged and rethrown
LoadDataFail ==
    /\ call' = [op |-> "loadData", rows |-> -1]
    /\ ret' = NULL
    /\ alias' = <<>>
    /\ threw' = TRUE
    /\ usedBefore' = usedIndices
    /\ UNCHANGED <<dataPerWorker, allData, usedIndices>>

GetUniqueDataOp(workerIndex, offset) ==
    LET r == GetUniqueDataResult(workerIndex, offset, allData, usedIndices)
    IN  /\ usedIndices' = r.used
        /\ ret' = r.ret
        /\ alias' = <<>>
        /\ call' = [op |-> "getUniqueData", workerIndex |-> workerIndex,
                    offset |-> offset]
        /\ threw' = FALSE
        /\ usedBefore' = usedIndices
        /\ UNCHANGED <<dataPerWorker, allData>>

GetMultipleDataOp(workerIndex, count) ==
    LET r == GetMultipleDataResult(workerIndex, count, allData, usedIndices)
    IN  /\ usedIndices' = r.used
        /\ ret' = r.ret
        /\ alias' = <<>>
        /\ call' = [op |-> "getMultipleData", workerIndex |-> workerIndex,
                    count |-> count]
        /\ threw' = FALSE
        /\ usedBefore' = usedIndices
        /\ UNCHANGED <<dataPerWorker, allData>>

GetDataByIndexOp(index, markAsUsed) ==
    LET r == GetDataByIndexResult(index, markAsUsed, allData, usedIndices)
    IN  /\ usedIndices' = r.used
        /\ ret' = r.ret
        /\ alias' = <<>>
        /\ call' = [op |-> "getDataByIndex", index |-> index,
                    markAsUsed |-> markAsUsed]
        /\ threw' = FALSE
        /\ usedBefore' = usedIndices
        /\ UNCHANGED <<dataPerWorker, allData>>

\* variant: the usage set is logged but not cleared
ResetUsedDataOpKeepsUsage ==
    /\ usedIndices' = usedIndices
    /\ call' = [op |-> "resetUsedData"]
    /\ ret' = NULL
    /\ alias' = <<>>
    /\ threw' = FALSE
    /\ usedBefore' = usedIndices
    /\ UNCHANGED <<dataPerWorker, allData>>

ResetUsedDataOp ==
    /\ usedIndices' = {}
    /\ call' = [op |-> "resetUsedData"]
    /\ ret' = NULL
    /\ alias' = <<>>
    /\ threw' = FALSE
    /\ usedBefore' = usedIndices
    /\ UNCHANGED <<dataPerWorker, allData>>

GetFilteredDataOp(filter) ==
    LET r == GetFilteredDataResult(filter, allData)
    IN  /\ ret' = r.ret
        /\ alias' = r.alias
        /\ call' = [op |-> "getFilteredData", filter |-> filter]
        /\ threw' = FALSE
        /\ usedBefore' = usedIndices
        /\ UNCHANGED <<dataPerWorker, allData, usedIndices>>

\* getDataCount(), getAvailableCount(), getStats()
AccessorOp(name) ==
    /\ ret' = CASE name = "getDataCount" -> GetDataCountResult(allData)
              [] name = "getAvailableCount" ->
                     GetAvailableCountResult(allData, usedIndices)
              [] name = "getStats" -> GetStatsResult(allData, usedIndices)
    /\ alias' = <<>>
    /\ call' = [op |-> name]
    /\ threw' = FALSE
    /\ usedBefore' = usedIndices
    /\ UNCHANGED <<dataPerWorker, allData, usedIndices>>

\* the operations on one shared instance, in any order and with any arguments
LoadData == /\ \/ \E n \in FileSizes : LoadDataOk(n)
               \/ LoadDataFail
            /\ UNCHANGED histVars

GetUniqueData == /\ \E w \in Workers, o \in Offsets : GetUniqueDataOp(w, o)
                 /\ UNCHANGED histVars

GetMultipleData == /\ \E w \in Workers, c \in Counts : GetMultipleDataOp(w, c)
                   /\ UNCHANGED histVars

GetDataByIndex == /\ \E i \in Indices, m \in BOOLEAN : GetDataByIndexOp(i, m)
                  /\ UNCHANGED histVars

ResetUsedData == ResetUsedDataOp /\ UNCHANGED histVars

GetFilteredData == /\ \E f \in Filters : GetFilteredDataOp(f)
                   /\ UNCHANGED histVars

Accessor == /\ \E name \in AccessorNames : AccessorOp(name)
            /\ UNCHANGED histVars

Next == \/ LoadData
        \/ GetUniqueData
        \/ GetMultipleData
        \/ GetDataByIndex
        \/ ResetUsedData
        \/ GetFilteredData
        \/ Accessor

Spec == Init /\ [][Next]_vars

\* ---------------------------------------------- the intended usage pattern
\* tests of one file share an instance that beforeAll has loaded; every
\* worker passes its own parallelIndex and offsets that increase from 0
IndexOf(result) == IF result = NULL THEN {} ELSE {result["_dataIndex"]}

PatternLoadData ==
    /\ call.op = "new"
    /\ \E n \in FileSizes : LoadDataOk(n)
    /\ UNCHANGED histVars

PatternGetUniqueData ==
    \E w \in Workers, o \in 0..MaxOffset :
        /\ o > lastOffset[w]
        /\ lastOffset[w] = -1 => o = 0
        /\ GetUniqueDataOp(w, o)
        /\ lastOffset' = [lastOffset EXCEPT ![w] = o]
        /\ received' = [received EXCEPT ![w] = @ \cup IndexOf(ret')]
        /\ UNCHANGED <<handed, watch, countVars, utilVars>>

PatternNext == PatternLoadData \/ PatternGetUniqueData

SpecPattern == Init /\ [][PatternNext]_vars

\* ------------------------------ workers that stay inside their own range
\* the instance is loaded once; every worker passes its own parallelIndex and
\* offsets below dataPerWorker, in any order and with repetitions; received
\* holds what each worker has been given, which is the usage set of a run
\* in which only that worker called
IndepGetUniqueData ==
    \E w \in Workers, o \in 0..MaxOffset :
        /\ o < dataPerWorker
        /\ GetUniqueDataOp(w, o)
        /\ received' = [received EXCEPT ![w] = @ \cup IndexOf(ret')]
        /\ UNCHANGED <<handed, lastOffset, watch, countVars, utilVars>>

IndepNext == PatternLoadData \/ IndepGetUniqueData

SpecIndep == Init /\ [][IndepNext]_vars

\* ------------------------------ callers that write to a returned record
\* the call that has just returned handed out one object or a list of them
ReturnedObjects ==
    IF call.op \in {"getUniqueData", "getDataByIndex"}
    THEN (IF ret = NULL THEN 0 ELSE 1)
    ELSE IF call.op \in {"getMultipleData", "getFilteredData"}
    THEN Len(ret)
    ELSE 0

ReturnsList == call.op \in {"getMultipleData", "getFilteredData"}

\* test code assigns  user.email = 'changed'  on the j-th object it received;
\* the object is the caller's own copy, or, when alias names a position of
\* allData, the very object that allData holds
CallerWritesOp(j) ==
    /\ j \in 1..ReturnedObjects
    /\ ret' = IF ReturnsList
              THEN [ret EXCEPT ![j] = [@ EXCEPT !["email"] = "changed"]]
              ELSE [ret EXCEPT !["email"] = "changed"]
    /\ allData' = IF j \in DOMAIN alias
                  THEN [allData EXCEPT ![alias[j] + 1] =
                            [@ EXCEPT !["email"] = "changed"]]
                  ELSE allData
    /\ call' = [op |-> "callerWrites", after |-> call.op, position |-> j]
    /\ alias' = alias
    /\ threw' = FALSE
    /\ usedBefore' = usedIndices
    /\ UNCHANGED <<dataPerWorker, usedIndices>>

AliasLoadData ==
    /\ \/ \E n \in 0..AliasRecords : LoadDataOk(n)
       \/ LoadDataFail
    /\ UNCHANGED histVars

AliasGetUniqueData ==
    /\ \E w \in Workers, o \in 0..MaxOffset : GetUniqueDataOp(w, o)
    /\ UNCHANGED histVars

AliasGetDataByIndex ==
    /\ \E i \in (-1)..AliasRecords, m \in BOOLEAN : GetDataByIndexOp(i, m)
    /\ UNCHANGED histVars

CallerWrites ==
    /\ \E j \in 1..AliasRecords : CallerWritesOp(j)
    /\ UNCHANGED histVars

AliasNext == \/ AliasLoadData
             \/ AliasGetUniqueData
             \/ GetMultipleData
             \/ AliasGetDataByIndex
             \/ GetFilteredData
             \/ ResetUsedData
             \/ CallerWrites

SpecAlias == Init /\ [][AliasNext]_vars

\* --------------------------- counting what getUniqueData has handed out
HandedLoadData ==
    /\ \/ \E n \in 0..HandedRecords : LoadDataOk(n)
       \/ LoadDataFail
    /\ UNCHANGED histVars

HandedGetUniqueData ==
    /\ \E w \in Workers, o \in 0..MaxOffset : GetUniqueDataOp(w, o)
    /\ handed' = HandOver(handed, IF ret' = NULL THEN <<>> ELSE <<ret'>>)
    /\ UNCHANGED <<lastOffset, received, watch, countVars, utilVars>>

HandedGetMultipleData ==
    /\ \E w \in Workers, c \in Counts : GetMultipleDataOp(w, c)
    /\ handed' = HandOver(handed, ret')
    /\ UNCHANGED <<lastOffset, received, watch, countVars, utilVars>>

HandedGetDataByIndex ==
    /\ \E i \in (-1)..HandedRecords, m \in BOOLEAN : GetDataByIndexOp(i, m)
    /\ UNCHANGED histVars

HandedResetUsedData ==
    /\ ResetUsedDataOp
    /\ handed' = NoneHanded
    /\ UNCHANGED <<lastOffset, received, watch, countVars, utilVars>>

HandedNext == \/ HandedLoadData
              \/ HandedGetUniqueData
              \/ HandedGetMultipleData
              \/ HandedGetDataByIndex
              \/ HandedResetUsedData

SpecHanded == Init /\ [][HandedNext]_vars

\* ------------------------- remembering one earlier call of getUniqueData
\* watch holds the arguments and the outcome of one getUniqueData call made
\* since the last resetUsedData; fresh marks the state right after that call
Aged(w) == IF w.set THEN [w EXCEPT !.fresh = FALSE] ELSE w

Watched(workerIndex, offset, result) ==
    [set |-> TRUE, fresh |-> TRUE, workerIndex |-> workerIndex,
     offset |-> offset,
     index |-> IF result = NULL THEN -1 ELSE result["_dataIndex"]]

RepeatLoadData ==
    /\ \/ \E n \in 0..TrackRecords : LoadDataOk(n)
       \/ LoadDataFail
    /\ watch' = Aged(watch)
    /\ UNCHANGED <<handed, lastOffset, received, countVars, utilVars>>

RepeatGetUniqueData ==
    \E w \in 0..TrackWorker, o \in 0..MaxOffset :
        /\ GetUniqueDataOp(w, o)
        /\ \/ ~watch.set /\ watch' = Watched(w, o, ret')
           \/ watch' = Aged(watch)
        /\ UNCHANGED <<handed, lastOffset, received, countVars, utilVars>>

RepeatGetDataByIndex ==
    /\ \E i \in 0..(TrackRecords - 1) : GetDataByIndexOp(i, TRUE)
    /\ watch' = Aged(watch)
    /\ UNCHANGED <<handed, lastOffset, received, countVars, utilVars>>

RepeatResetUsedData ==
    /\ ResetUsedDataOp
    /\ watch' = NoWatch
    /\ UNCHANGED <<handed, lastOffset, received, countVars, utilVars>>

RepeatNext == \/ RepeatLoadData
              \/ RepeatGetUniqueData
              \/ RepeatGetDataByIndex
              \/ RepeatResetUsedData

SpecRepeat == Init /\ [][RepeatNext]_vars

\* ------------------- remembering one getDataByIndex(index, false) call
\* watch holds the index and the outcome of the first unmarked read made
\* since the last loadData, and whether the index was used at that moment;
\* again tells that the same index has been read unmarked once more since
FirstRead(index, result) ==
    [set |-> TRUE, index |-> index, ret |-> result,
     wasUsed |-> (index \in usedIndices), again |-> FALSE]

ReadLoadData ==
    /\ \/ \E n \in 0..ReadRecords : LoadDataOk(n)
       \/ LoadDataFail
    /\ watch' = NoWatch
    /\ UNCHANGED <<handed, lastOffset, received, countVars, utilVars>>

ReadGetDataByIndex ==
    \E i \in (-1)..ReadRecords, m \in BOOLEAN :
        /\ GetDataByIndexOp(i, m)
        /\ watch' = IF m THEN watch
                    ELSE IF ~watch.set THEN FirstRead(i, ret')
                    ELSE IF watch.index = i THEN [watch EXCEPT !.again = TRUE]
                    ELSE watch
        /\ UNCHANGED <<handed, lastOffset, received, countVars, utilVars>>

ReadGetUniqueData ==
    /\ \E w \in Workers, o \in 0..MaxOffset : GetUniqueDataOp(w, o)
    /\ UNCHANGED histVars

ReadNext == \/ ReadLoadData
            \/ ReadGetDataByIndex
            \/ ReadGetUniqueData
            \/ GetMultipleData
            \/ ResetUsedData
            \/ GetFilteredData
            \/ Accessor

SpecRead == Init /\ [][ReadNext]_vars

\* ----------------- counting the indices marked since the last reset
\* the sizes of the data file: small ones, and the 10 rows of the usage
\* accounting example
CountFileSizes == (0..CountRecords) \cup {10}

\* the indices of the records in a result list
IndicesOf(records) == {records[k]["_dataIndex"] : k \in 1..Len(records)}

CountLoadData ==
    /\ \/ /\ \E n \in CountFileSizes : LoadDataOk(n)
          /\ loaded' = "yes"
       \/ /\ LoadDataFail
          /\ loaded' = IF loaded = "yes" THEN "yes" ELSE "failed"
    /\ UNCHANGED <<handed, lastOffset, received, watch, marked, ownUsed,
                   utilVars>>

CountGetUniqueData ==
    /\ Cardinality(usedIndices) < MaxMarked
    /\ \E w \in Workers, o \in 0..MaxOffset : GetUniqueDataOp(w, o)
    /\ marked' = marked \cup IndexOf(ret')
    /\ UNCHANGED <<handed, lastOffset, received, watch, loaded, ownUsed,
                   utilVars>>

CountGetMultipleData ==
    /\ \E w \in Workers, c \in Counts :
          /\ Cardinality(usedIndices) + c <= MaxMarked
          /\ GetMultipleDataOp(w, c)
    /\ marked' = marked \cup IndicesOf(ret')
    /\ UNCHANGED <<handed, lastOffset, received, watch, loaded, ownUsed,
                   utilVars>>

CountGetDataByIndex ==
    /\ Cardinality(usedIndices) < MaxMarked
    /\ \E i \in (-1)..CountRecords, m \in BOOLEAN :
          /\ GetDataByIndexOp(i, m)
          /\ marked' = IF m THEN marked \cup IndexOf(ret') ELSE marked
    /\ UNCHANGED <<handed, lastOffset, received, watch, loaded, ownUsed,
                   utilVars>>

CountResetUsedData ==
    /\ ResetUsedDataOp
    /\ marked' = {}
    /\ UNCHANGED <<handed, lastOffset, received, watch, loaded, ownUsed,
                   utilVars>>

CountNext == \/ CountLoadData
             \/ CountGetUniqueData
             \/ CountGetMultipleData
             \/ CountGetDataByIndex
             \/ CountResetUsedData
             \/ Accessor

SpecCount == Init /\ [][CountNext]_vars

\* ------------------------------- one manager instance in every worker
\* every worker process runs beforeAll itself: it constructs its own
\* instance with the same options and loads the same file, so the instances
\* hold equal datasets (allData) and separate usage sets (ownUsed[w]); a
\* worker passes its own parallelIndex and offsets below dataPerWorker
OwnLoadData ==
    /\ call.op = "new"
    /\ \E n \in FileSizes : LoadDataOk(n)
    /\ UNCHANGED histVars

OwnGetUniqueData ==
    \E w \in Workers, o \in 0..MaxOffset :
        /\ o < dataPerWorker
        /\ call.op # "new"
        /\ LET r == GetUniqueDataResult(w, o, allData, ownUsed[w])
           IN  /\ ownUsed' = [ownUsed EXCEPT ![w] = r.used]
               /\ ret' = r.ret
               /\ received' = [received EXCEPT ![w] = @ \cup IndexOf(r.ret)]
        /\ call' = [op |-> "getUniqueData", workerIndex |-> w, offset |-> o]
        /\ alias' = <<>>
        /\ threw' = FALSE
        /\ usedBefore' = ownUsed[w]
        /\ UNCHANGED <<mgrVars, handed, lastOffset, watch, marked, loaded,
                       utilVars>>

OwnGetMultipleData ==
    \E w \in Workers, c \in Counts :
        /\ c <= dataPerWorker
        /\ call.op # "new"
        /\ LET r == GetMultipleDataResult(w, c, allData, ownUsed[w])
           IN  /\ ownUsed' = [ownUsed EXCEPT ![w] = r.used]
               /\ ret' = r.ret
               /\ received' = [received EXCEPT ![w] = @ \cup IndicesOf(r.ret)]
        /\ call' = [op |-> "getMultipleData", workerIndex |-> w, count |-> c]
        /\ alias' = <<>>
        /\ threw' = FALSE
        /\ usedBefore' = ownUsed[w]
        /\ UNCHANGED <<mgrVars, handed, lastOffset, watch, marked, loaded,
                       utilVars>>

OwnNext == OwnLoadData \/ OwnGetUniqueData \/ OwnGetMultipleData

SpecOwn == Init /\ [][OwnNext]_vars

\* ------------------------------------------------------- retryAction
\* the default parameter value applies when the argument is left out
EffectiveMaxRetries(argument) ==
    IF argument.given THEN argument.value ELSE DefaultMaxRetries

\* the test  i < maxRetries  at the head of the for loop: the next attempt
\* is due, or the loop is left and the function returns undefined
LoopHead(r) ==
    IF r.i < r.maxRetries THEN [r EXCEPT !.pc = "loop"]
    ELSE [r EXCEPT !.pc = "returned"]

\* variant: the body runs once before the bound is tested (do ... while)
RetryActionCallOpAttemptsFirst(argument) ==
    /\ retry.pc # "loop"
    /\ retry' = [pc |-> "loop", argument |-> argument,
                 maxRetries |-> EffectiveMaxRetries(argument),
                 i |-> 0, attempts |-> 0, errors |-> <<>>, thrown |-> ""]
    /\ UNCHANGED reporter

\* retryAction(action, maxRetries) is called: i = 0 and the loop is entered
RetryActionCallOp(argument) ==
    /\ retry.pc # "loop"
    /\ retry' = LoopHead([pc |-> "loop", argument |-> argument,
                          maxRetries |-> EffectiveMaxRetries(argument),
                          i |-> 0, attempts |-> 0, errors |-> <<>>,
                          thrown |-> ""])
    /\ UNCHANGED reporter

\* variant: the error of the first failed attempt is the one thrown
AttemptFailsOpThrowsFirst(message) ==
    /\ retry.pc = "loop"
    /\ LET failed == [retry EXCEPT !.attempts = @ + 1,
                                   !.errors = Append(@, message)]
       IN  retry' = IF retry.i = retry.maxRetries - 1
                    THEN [failed EXCEPT !.pc = "threw",
                                        !.thrown = failed.errors[1]]
                    ELSE LoopHead([failed EXCEPT !.i = @ + 1])
    /\ UNCHANGED reporter

\* await action() resolves: "Success" is logged and the function returns
AttemptSucceedsOp ==
    /\ retry.pc = "loop"
    /\ retry' = [retry EXCEPT !.attempts = @ + 1, !.pc = "returned"]
    /\ UNCHANGED reporter

\* await action() rejects: the error is logged; it is rethrown when
\* i === maxRetries - 1, otherwise the loop goes on after the 1 s wait
AttemptFailsOp(message) ==
    /\ retry.pc = "loop"
    /\ LET failed == [retry EXCEPT !.attempts = @ + 1,
                                   !.errors = Append(@, message)]
       IN  retry' = IF retry.i = retry.maxRetries - 1
                    THEN [failed EXCEPT !.pc = "threw", !.thrown = message]
                    ELSE LoopHead([failed EXCEPT !.i = @ + 1])
    /\ UNCHANGED reporter

RetryActionCall ==
    /\ \E argument \in RetryArguments : RetryActionCallOp(argument)
    /\ UNCHANGED <<mgrVars, obsVars, handed, lastOffset, received, watch,
                   countVars>>

AttemptSucceeds ==
    /\ AttemptSucceedsOp
    /\ UNCHANGED <<mgrVars, obsVars, handed, lastOffset, received, watch,
                   countVars>>

AttemptFails ==
    /\ \E message \in ErrorMessages : AttemptFailsOp(message)
    /\ UNCHANGED <<mgrVars, obsVars, handed, lastOffset, received, watch,
                   countVars>>

RetryNext == RetryActionCall \/ AttemptSucceeds \/ AttemptFails

SpecRetry == Init /\ [][RetryNext]_vars

\* ------------------------------------------------ SimpleHTMLReporter
\* this.results.filter(r => r.status === status).length
CountStatus(results, status) ==
    Cardinality({k \in 1..Len(results) : results[k] = status})

\* the data that onEnd passes to generateHTML
Summary(results) ==
    [total |-> Len(results),
     passed |-> CountStatus(results, "passed"),
     failed |-> CountStatus(results, "failed"),
     skipped |-> CountStatus(results, "skipped")]

NoSummary == [total |-> -1]

\* onBegin(config, suite): this.results = []
OnBeginOp ==
    /\ reporter' = [begun |-> TRUE, last |-> "onBegin", results |-> <<>>,
                    events |-> 0, summary |-> NoSummary, threw |-> FALSE]
    /\ UNCHANGED retry

\* onTestEnd(test, result): this.results.push({... status: result.status});
\* before the first onBegin this.results is undefined and push throws
OnTestEndOp(status) ==
    /\ reporter' =
          IF reporter.begun
          THEN [reporter EXCEPT !.last = "onTestEnd",
                                !.results = Append(@, status),
                                !.events = @ + 1,
                                !.threw = FALSE]
          ELSE [begun |-> FALSE, last |-> "onTestEnd", threw |-> TRUE]
    /\ UNCHANGED retry

\* onEnd(result): the counts are taken from this.results
OnEndOp ==
    /\ reporter' =
          IF reporter.begun
          THEN [reporter EXCEPT !.last = "onEnd",
                                !.summary = Summary(reporter.results),
                                !.threw = FALSE]
          ELSE [begun |-> FALSE, last |-> "onEnd", threw |-> TRUE]
    /\ UNCHANGED retry

OnBegin ==
    /\ OnBeginOp
    /\ UNCHANGED <<mgrVars, obsVars, handed, lastOffset, received, watch,
                   countVars>>

OnTestEnd ==
    /\ reporter.begun => reporter.events < MaxTests
    /\ \E status \in Statuses : OnTestEndOp(status)
    /\ UNCHANGED <<mgrVars, obsVars, handed, lastOffset, received, watch,
                   countVars>>

OnEnd ==
    /\ OnEndOp
    /\ UNCHANGED <<mgrVars, obsVars, handed, lastOffset, received, watch,
                   countVars>>

ReportNext == OnBegin \/ OnTestEnd \/ OnEnd

SpecReport == Init /\ [][ReportNext]_vars

\* ------------------------------------------------- observation helpers
\* the last call was getUniqueData(call.workerIndex, call.offset)
IsGetUnique == call.op = "getUniqueData"
IsGetMultiple == call.op = "getMultipleData"
\* candidateIndex = partitionId * sliceSize + offset, of the last call
Candidate == call.workerIndex * dataPerWorker + call.offset
Returned == ret # NULL
\* the reserved range of the calling worker
CallRange == { i \in 0..(MaxRecords + 1 + dataPerWorker) :
                 /\ i >= call.workerIndex * dataPerWorker
                 /\ i < call.workerIndex * dataPerWorker + dataPerWorker }
\* the in-bounds indices of that range that were unused when the call was made
FreeInRange == { i \in CallRange : i < Len(allData) /\ i \notin usedBefore }
SetMin(S) == CHOOSE m \in S : \A x \in S : m <= x
\* obj carries every field of row, with the same values
CopyOf(obj, row) == \A k \in DOMAIN row : k \in DOMAIN obj /\ obj[k] = row[k]
HasField(obj, k) == k \in DOMAIN obj

\* -------------------------------------------------------------- claims

\* C1: on one instance, when every worker passes its own index and offsets
\* that increase from 0, no dataset index is returned to two workers.
C1_NoSharedIndex ==
    \A w1 \in Workers, w2 \in Workers :
        w1 # w2 => received[w1] \cap received[w2] = {}

\* a worker has been given an index of another worker's range, and that
\* other worker has been given records too
C1_Witness ==
    \E w1 \in Workers, w2 \in Workers :
        /\ w1 # w2
        /\ \E i \in received[w1] :
              i >= w2 * dataPerWorker /\ i < w2 * dataPerWorker + dataPerWorker
        /\ received[w2] # {}
        /\ Cardinality(received[w1]) >= 2

\* C2: getUniqueData(p, o) whose candidate index c = p * dataPerWorker + o is
\* below the dataset length and not in the usage set marks c used and returns
\* a copy of allData[c] annotated with _dataIndex = c and _workerIndex = p.
C2_DirectAllocation ==
    (IsGetUnique /\ Candidate < Len(allData) /\ Candidate \notin usedBefore)
    => /\ usedIndices = usedBefore \cup {Candidate}
       /\ Returned
       /\ CopyOf(ret, allData[Candidate + 1])
       /\ DOMAIN ret = DOMAIN allData[Candidate + 1]
                          \cup {"_dataIndex", "_workerIndex"}
       /\ ret["_dataIndex"] = Candidate
       /\ ret["_workerIndex"] = call.workerIndex

C2_Witness ==
    /\ IsGetUnique /\ Candidate < Len(allData) /\ Candidate \notin usedBefore
    /\ call.workerIndex > 0 /\ call.offset > 0
    /\ usedBefore # {}
    /\ ret["_dataIndex"] = Candidate

\* C3: every record returned by getUniqueData, through the direct candidate
\* index or through the fallback scan, is annotated with both its actual
\* dataset index and the requesting worker index.
C3_AlwaysAnnotated ==
    (IsGetUnique /\ Returned)
    => /\ HasField(ret, "_dataIndex")
       /\ HasField(ret, "_workerIndex")
       /\ ret["_workerIndex"] = call.workerIndex
       /\ ret["_dataIndex"] \in 0..(Len(allData) - 1)
       /\ CopyOf(ret, allData[ret["_dataIndex"] + 1])

\* C4: when the candidate index is within the dataset but already used, the
\* call returns the record at the smallest in-bounds unused index of the
\* worker's range and adds exactly that index to the usage set.
C4_FallbackSmallest ==
    (/\ IsGetUnique /\ Candidate < Len(allData) /\ Candidate \in usedBefore
     /\ FreeInRange # {})
    => /\ Returned
       /\ ret["_dataIndex"] = SetMin(FreeInRange)
       /\ CopyOf(ret, allData[SetMin(FreeInRange) + 1])
       /\ usedIndices = usedBefore \cup {SetMin(FreeInRange)}

C4_Witness ==
    /\ IsGetUnique /\ Candidate < Len(allData) /\ Candidate \in usedBefore
    /\ Cardinality(FreeInRange) >= 2
    /\ SetMin(FreeInRange) > call.workerIndex * dataPerWorker
    /\ Candidate > SetMin(FreeInRange)
    /\ ret["_dataIndex"] = SetMin(FreeInRange)

\* C5: the fallback scan never returns an index outside the worker's range;
\* when the candidate is used and every in-bounds index of the range is used
\* the call returns no data, even if other ranges have unused indices.
C5_FallbackStaysInRange ==
    (IsGetUnique /\ Candidate < Len(allData) /\ Candidate \in usedBefore)
    => /\ Returned => ret["_dataIndex"] \in CallRange
       /\ FreeInRange = {} => (ret = NULL /\ usedIndices = usedBefore)

C5_Witness ==
    /\ IsGetUnique /\ Candidate < Len(allData) /\ Candidate \in usedBefore
    /\ FreeInRange = {}
    /\ ret = NULL
    /\ \E j \in 0..(Len(allData) - 1) : j \notin usedIndices /\ j \notin CallRange

\* C6: getUniqueData(workerIndex, offset) returns no data whenever
\* offset >= dataPerWorker, so a worker is never handed a record of another
\* worker's range.
C6_OffsetBeyondSliceIsNull ==
    (IsGetUnique /\ call.offset >= dataPerWorker) => ret = NULL

\* C7: getUniqueData and getMultipleData never return a dataset index that
\* is in the usage set when the call is made (however it got there), so
\* between two resets no index is returned twice.
ReturnedIndices ==
    IF IsGetUnique THEN (IF Returned THEN {ret["_dataIndex"]} ELSE {})
    ELSE IF IsGetMultiple THEN {ret[k]["_dataIndex"] : k \in 1..Len(ret)}
    ELSE {}

C7_NeverReturnsUsed ==
    /\ ReturnedIndices \cap usedBefore = {}
    /\ IsGetMultiple => Cardinality(ReturnedIndices) = Len(ret)
    /\ \A i \in DOMAIN handed : handed[i] <= 1

\* the candidate index of the first offset of a getMultipleData call
Candidate0 == call.workerIndex * dataPerWorker

C7_Witness ==
    /\ IsGetMultiple /\ Len(ret) >= 2
    /\ \E i \in usedBefore : i \in CallRange /\ handed[i] = 0
    /\ \E i \in usedIndices : handed[i] = 1 /\ i # Candidate0

\* C8 (as stated): of two getUniqueData(p, o) calls with the same arguments
\* and no reset in between, the second returns a different, previously
\* unused index of the worker's range, or no data if that range is exhausted.
SecondCall ==
    /\ IsGetUnique /\ watch.set /\ ~watch.fresh
    /\ watch.workerIndex = call.workerIndex /\ watch.offset = call.offset

C9_ExhaustionIsNull ==
    [][(call'.op = "getUniqueData"
        /\ call'.workerIndex * dataPerWorker + call'.offset >= Len(allData))
       => /\ ret' = NULL
          /\ threw' = FALSE
          /\ usedIndices' = usedIndices
          /\ allData' = allData]_vars

C9_Witness ==
    /\ IsGetUnique /\ Candidate >= Len(allData)
    /\ ret = NULL /\ ~threw
    /\ usedIndices = usedBefore /\ usedBefore # {}
    /\ Len(allData) > 0

\* C10 (as stated): with 5 records and dataPerWorker = 10 on a fresh manager,
\* getUniqueData(0, 7) returns the record with index 7.
FreshFiveOfTen ==
    /\ IsGetUnique /\ dataPerWorker = 10 /\ Len(allData) = 5
    /\ call.workerIndex = 0 /\ usedBefore = {}

C10_Original ==
    /\ (FreshFiveOfTen /\ call.offset = 7)
       => (Returned /\ ret["_dataIndex"] = 7)
    /\ (FreshFiveOfTen /\ call.offset = 12) => (ret = NULL /\ ~threw)

\* C10 (amended): with 5 records and dataPerWorker = 10 on a fresh manager,
\* getUniqueData(0, 7) and getUniqueData(0, 12) both return null without
\* throwing (7 is not an index of a 5-record dataset); an offset below 5,
\* such as 3, returns the record with that index.
C10_FiveOfTen ==
    /\ (FreshFiveOfTen /\ call.offset \in {7, 12})
       => (ret = NULL /\ ~threw /\ usedIndices = {})
    /\ (FreshFiveOfTen /\ call.offset = 3)
       => (Returned /\ ret["_dataIndex"] = 3 /\ ~threw)

C10_Witness == FreshFiveOfTen /\ call.offset = 7 /\ ret = NULL

\* C11: getMultipleData(p, count) performs getUniqueData(p, offset) for
\* offset = 0, 1, ... in order, stops at the first null and returns the
\* records before it in order; the result has at most count records and is
\* shorter than count exactly when one of these calls returned null.
MultiUsedAfter(k) == usedBefore \cup {ret[j]["_dataIndex"] : j \in 1..k}

NthUnique(k) ==
    GetUniqueDataResult(call.workerIndex, k - 1, allData, MultiUsedAfter(k - 1))

C11_MultipleIsRepeatedUnique ==
    IsGetMultiple
    => /\ Len(ret) <= call.count
       /\ \A k \in 1..Len(ret) : ret[k] # NULL /\ ret[k] = NthUnique(k).ret
       /\ Len(ret) < call.count => NthUnique(Len(ret) + 1).ret = NULL
       /\ usedIndices = MultiUsedAfter(Len(ret))

C11_Witness ==
    /\ IsGetMultiple /\ Len(ret) >= 2 /\ Len(ret) < call.count
    /\ usedBefore # {}
    /\ \E k \in 1..Len(ret) : ~HasField(ret[k], "_workerIndex")

\* C12: when distinct workers call getUniqueData with offsets below
\* dataPerWorker on one instance, every call returns what it would return if
\* only that worker had called: the calls of one worker never change what
\* another receives, so the outcomes are the same in every interleaving.
C12_OutcomeIndependent ==
    [][call'.op = "getUniqueData"
       => ret' = GetUniqueDataResult(call'.workerIndex, call'.offset, allData',
                                     received[call'.workerIndex]).ret]_vars

\* a fallback reassignment for one worker after other workers were served
C12_Witness ==
    /\ IsGetUnique /\ Returned /\ ret["_dataIndex"] # Candidate
    /\ call.workerIndex > 0
    /\ \A w \in Workers : received[w] # {}

\* the candidate indices of worker p for the offsets below dataPerWorker
SliceCandidates(p) == {DataIndex(p, o) : o \in 0..(dataPerWorker - 1)}

\* C13: for distinct worker indices p1 # p2 and offsets o1, o2 below
\* dataPerWorker the candidate indices differ (the two workers' sets of
\* candidates are disjoint); with dataPerWorker = 10, (0, 9) gives 9 and
\* (1, 0) gives 10.
C13_DisjointCandidates ==
    /\ \A p1 \in Workers, p2 \in Workers :
         p1 # p2 => SliceCandidates(p1) \cap SliceCandidates(p2) = {}
    /\ dataPerWorker = 10 => (DataIndex(0, 9) = 9 /\ DataIndex(1, 0) = 10)

\* worker 1 is given the first index of its range right after worker 0's
\* last one has been used
C13_Witness ==
    /\ IsGetUnique /\ call.workerIndex = 1 /\ call.offset = 0
    /\ Returned /\ ret["_dataIndex"] = dataPerWorker
    /\ (dataPerWorker - 1) \in usedBefore

\* C14: resetUsedData empties the usage set and leaves the dataset as it
\* was; every index that was used before is then returned again by
\* getDataByIndex, by getUniqueData's direct path, and is taken again by the
\* fallback scan.
WorkerRange(w) == { i \in 0..(MaxRecords + 1 + dataPerWorker) :
                      i >= w * dataPerWorker
                      /\ i < w * dataPerWorker + dataPerWorker }

C14_ResetClearsUsageOnly ==
    [][call'.op = "resetUsedData"
       => /\ usedIndices' = {}
          /\ allData' = allData
          /\ \A i \in usedIndices :
               i < Len(allData')
               => /\ GetDataByIndexResult(i, TRUE, allData', usedIndices').ret
                        = ("_dataIndex" :> i) @@ allData'[i + 1]
                  /\ \A w \in Workers, o \in Offsets :
                        w * dataPerWorker + o = i
                        => GetUniqueDataResult(w, o, allData', usedIndices')
                              .ret["_dataIndex"] = i
                  /\ \A w \in Workers :
                        i \in WorkerRange(w)
                        => AltIndex(w, 0, allData',
                                    usedIndices'
                                    \cup {j \in WorkerRange(w) : j < i}) = i]_vars

C14_Witness ==
    /\ call.op = "resetUsedData"
    /\ usedIndices = {}
    /\ Cardinality(usedBefore) >= 2
    /\ \A i \in usedBefore : i < Len(allData)

\* C15: the usage set changes only by adding the index returned by a
\* successful getUniqueData (each one of getMultipleData), by adding the
\* index of a successful getDataByIndex with markAsUsed, or by being emptied
\* by resetUsedData; getFilteredData, the accessors, getDataByIndex without
\* markAsUsed and every call returning no data leave it unchanged, so
\* between resets it only grows.
C15_UsageChanges ==
    [][/\ call'.op = "getUniqueData"
          => usedIndices' = usedIndices \cup IndexOf(ret')
       /\ call'.op = "getMultipleData"
          => usedIndices' = usedIndices
                \cup {ret'[k]["_dataIndex"] : k \in 1..Len(ret')}
       /\ call'.op = "getDataByIndex"
          => usedIndices' = IF call'.markAsUsed
                            THEN usedIndices \cup IndexOf(ret')
                            ELSE usedIndices
       /\ call'.op = "resetUsedData" => usedIndices' = {}
       /\ call'.op \in {"getFilteredData", "loadData"} \cup AccessorNames
          => usedIndices' = usedIndices
       /\ call'.op # "resetUsedData" => usedIndices \subseteq usedIndices'
      ]_vars

C15_Witness ==
    /\ call.op = "getDataByIndex" /\ ~call.markAsUsed
    /\ Returned
    /\ call.index \notin usedIndices
    /\ usedIndices = usedBefore /\ usedBefore # {}

\* C16: getFilteredData(filter) returns exactly the records of allData whose
\* fields equal every entry of the filter, in the order of allData; it does
\* not depend on the usage set and does not change it.  Of the records
\* active, inactive, active the filter status = active returns the first
\* and the third.
IsFilter == call.op = "getFilteredData"

MatchingPositions ==
    { i \in 1..Len(allData) :
        \A k \in DOMAIN call.filter :
            k \in DOMAIN allData[i] /\ allData[i][k] = call.filter[k] }

C16_FilterExact ==
    IsFilter
    => /\ Len(ret) = Cardinality(MatchingPositions)
       /\ \A i \in MatchingPositions :
             ret[Cardinality({m \in MatchingPositions : m <= i})] = allData[i]
       /\ usedIndices = usedBefore
       /\ (Len(allData) = 3 /\ DOMAIN call.filter = {"status"}
             /\ call.filter["status"] = "active")
          => ret = <<allData[1], allData[3]>>

\* some of the returned records are marked used, others are not
C16_Witness ==
    /\ IsFilter /\ Len(ret) >= 2 /\ Len(ret) < Len(allData)
    /\ \E i \in MatchingPositions : (i - 1) \in usedIndices
    /\ \E i \in MatchingPositions : (i - 1) \notin usedIndices

\* C17: a filter that names a field no record has returns an empty list and
\* raises nothing.
NamesMissingField ==
    \E k \in DOMAIN call.filter :
        \A i \in 1..Len(allData) : k \notin DOMAIN allData[i]

C17_MissingFieldIsEmpty ==
    (IsFilter /\ NamesMissingField) => (Len(ret) = 0 /\ ~threw)

C17_Witness ==
    /\ IsFilter /\ NamesMissingField
    /\ "status" \in DOMAIN call.filter
    /\ \E i \in 1..Len(allData) : allData[i]["status"] = call.filter["status"]
    /\ Len(ret) = 0

\* C18: the dataset is immutable after load: no getUniqueData,
\* getMultipleData, getFilteredData, getDataByIndex or resetUsedData call
\* changes a record of allData, and the returned records are copies, so a
\* caller writing to a returned record does not change allData.
C18_DatasetImmutable ==
    [][call'.op # "loadData" => allData' = allData]_vars

\* C19: getDataByIndex(i, markAsUsed) with 0 <= i < the dataset length returns
\* the record at i annotated with _dataIndex = i whether or not i is already
\* used; with markAsUsed the usage set becomes the previous one plus i,
\* without it the usage set is unchanged.
IsByIndex == call.op = "getDataByIndex"

C19_ByIndexInBounds ==
    (IsByIndex /\ call.index >= 0 /\ call.index < Len(allData))
    => /\ Returned
       /\ CopyOf(ret, allData[call.index + 1])
       /\ DOMAIN ret = DOMAIN allData[call.index + 1] \cup {"_dataIndex"}
       /\ ret["_dataIndex"] = call.index
       /\ usedIndices = IF call.markAsUsed
                        THEN usedBefore \cup {call.index}
                        ELSE usedBefore

\* an index that was already used is returned and marked again
C19_Witness ==
    /\ IsByIndex /\ call.markAsUsed
    /\ call.index \in usedBefore /\ call.index < Len(allData)
    /\ Returned /\ ret["_dataIndex"] = call.index
    /\ usedIndices = usedBefore

\* C20: getDataByIndex(i, markAsUsed) with i < 0 or i >= the dataset length
\* returns null, raises nothing and leaves the usage set unchanged, whatever
\* markAsUsed is.
C20_ByIndexOutOfBounds ==
    (IsByIndex /\ (call.index < 0 \/ call.index >= Len(allData)))
    => (ret = NULL /\ ~threw /\ usedIndices = usedBefore)

C20_Witness ==
    /\ IsByIndex /\ call.markAsUsed
    /\ call.index = Len(allData) /\ Len(allData) > 0
    /\ ret = NULL /\ usedIndices = usedBefore /\ usedBefore # {}

\* C21: getDataByIndex(i, false) called twice, with any operations other
\* than loadData in between, returns the same record content both times.
C21_UnmarkedReadRepeats ==
    (/\ IsByIndex /\ ~call.markAsUsed
     /\ watch.set /\ watch.again /\ watch.index = call.index)
    => ret = watch.ret

\* the second read of a record whose index was marked used in between
C21_Witness ==
    /\ IsByIndex /\ ~call.markAsUsed
    /\ watch.set /\ watch.again /\ watch.index = call.index
    /\ Returned
    /\ ~watch.wasUsed /\ call.index \in usedIndices

\* C22: the used count equals the number of distinct dataset indices marked
\* since the last resetUsedData and the available count equals total - used;
\* after 3 distinct indices of a 10-record dataset were marked, available is
\* 7 and used is 3.
C22_UsageAccounting ==
    /\ call.op = "getStats"
       => /\ ret.total = Len(allData)
          /\ ret.used = Cardinality(marked)
          /\ ret.available = ret.total - ret.used
    /\ call.op = "getAvailableCount"
       => ret = Len(allData) - Cardinality(marked)
    /\ (call.op = "getStats" /\ Len(allData) = 10
                            /\ Cardinality(marked) = 3)
       => (ret.available = 7 /\ ret.used = 3)

C22_Witness ==
    /\ call.op = "getStats" /\ Len(allData) = 10
    /\ Cardinality(marked) = 3
    /\ ret.available = 7 /\ ret.used = 3

\* C23: before any successful loadData, also after a loadData that failed
\* and rethrew its error, getUniqueData and getDataByIndex return null,
\* getMultipleData returns an empty list, and none of them throws.
C23_UnloadedIsNoData ==
    loaded # "yes"
    => /\ call.op \in {"getUniqueData", "getDataByIndex"}
          => (ret = NULL /\ ~threw)
       /\ IsGetMultiple => (ret = <<>> /\ ~threw)

\* getMultipleData asked for records after the only load so far has failed
C23_Witness ==
    /\ loaded = "failed" /\ IsGetMultiple /\ call.count > 0
    /\ ret = <<>> /\ ~threw

\* C24: calling loadData again replaces the dataset with the newly read
\* records and leaves the usage set exactly as it was.
C24_ReloadKeepsUsage ==
    (call.op = "loadData" /\ ~threw)
    => /\ allData = FileRows(call.rows)
       /\ usedIndices = usedBefore

\* a reload that delivers fewer rows than the largest used index
C24_Witness ==
    /\ call.op = "loadData" /\ ~threw
    /\ usedBefore # {} /\ usedIndices = usedBefore
    /\ Len(allData) = call.rows
    /\ \E i \in usedIndices : i >= Len(allData)

\* C27: in every reachable state, also after a reload that yields a
\* different number of records, every index of the usage set is a valid
\* dataset index, so 0 <= used <= total and available >= 0.
C27_UsageWithinDataset ==
    /\ \A i \in usedIndices : i >= 0 /\ i < Len(allData)
    /\ Cardinality(usedIndices) <= Len(allData)
    /\ GetAvailableCountResult(allData, usedIndices) >= 0

\* C28: getUniqueData(p, o) whose candidate index is within the dataset
\* returns null only if the candidate and every in-bounds index of the
\* worker's range are used; if an in-bounds index of the range is unused the
\* call returns a record.
C28_NullOnlyWhenExhausted ==
    (IsGetUnique /\ Candidate < Len(allData))
    => /\ ret = NULL => (Candidate \in usedBefore /\ FreeInRange = {})
       /\ FreeInRange # {} => Returned

\* null for a used candidate beyond the slice, whose range is used up while
\* other ranges still have unused records
C28_Witness ==
    /\ IsGetUnique /\ Candidate < Len(allData) /\ ret = NULL
    /\ call.offset >= dataPerWorker
    /\ Candidate \in usedBefore /\ FreeInRange = {}
    /\ \E j \in 0..(Len(allData) - 1) : j \notin usedIndices

\* C26: when each worker holds its own instance loaded from the same
\* dataset and calls getUniqueData / getMultipleData only with its own
\* worker index and offsets below dataPerWorker, no dataset index is
\* returned to two different workers, in any interleaving and including
\* fallback reassignments.
C26_OwnInstancesDisjoint ==
    \A w1 \in Workers : \A i \in received[w1] :
        \A w2 \in Workers \ {w1} : i \notin received[w2]

\* a fallback reassignment for one worker while another worker holds records
C26_Witness ==
    /\ IsGetUnique /\ Returned /\ ret["_dataIndex"] # Candidate
    /\ \E w \in Workers \ {call.workerIndex} : Cardinality(received[w]) >= 2

\* C25: retryAction(action, maxRetries) invokes the action at most
\* maxRetries times, returns right after the first successful attempt
\* without further attempts, and when all maxRetries attempts fail it throws
\* the error of the last attempt (maxRetries >= 1).
C25_RetryBounded ==
    (retry.pc # "idle" /\ retry.maxRetries >= 1)
    => /\ retry.attempts <= retry.maxRetries
       /\ retry.attempts \in {Len(retry.errors), Len(retry.errors) + 1}
       /\ retry.pc = "returned" <=> retry.attempts = Len(retry.errors) + 1
       /\ retry.pc = "threw" <=> Len(retry.errors) = retry.maxRetries
       /\ retry.pc = "threw"
          => retry.thrown = retry.errors[retry.maxRetries]

\* three failed attempts with different errors, the last of which is
\* thrown, in a call that left maxRetries out
C25_Witness ==
    /\ retry.pc = "threw" /\ ~retry.argument.given /\ retry.attempts = 3
    /\ retry.errors[1] # retry.errors[3]
    /\ retry.thrown = retry.errors[3]

\* C29: retryAction called with maxRetries <= 0 never invokes the action and
\* completes normally without throwing.
C29_NoAttemptIsSuccess ==
    (retry.pc # "idle" /\ retry.maxRetries <= 0)
    => /\ retry.pc = "returned"
       /\ retry.attempts = 0
       /\ retry.errors = <<>>

\* a call with a negative maxRetries made after a call that threw
C29_Witness ==
    /\ retry.pc = "returned" /\ retry.maxRetries < 0 /\ retry.attempts = 0

\* C30: for every sequence of onBegin, onTestEnd and onEnd events the
\* summary computed at onEnd has total equal to the number of onTestEnd
\* events since the last onBegin and passed + failed + skipped = total,
\* whatever the result statuses were (timedOut and interrupted included).
C30_SummaryAddsUp ==
    (reporter.begun /\ reporter.last = "onEnd")
    => /\ reporter.summary.total = reporter.events
       /\ reporter.summary.passed + reporter.summary.failed
             + reporter.summary.skipped = reporter.summary.total

====
